---------------------------- MODULE Spec2Model ----------------------------
(***************************************************************************)
(* Template-variable engine of promt-template-manager:                     *)
(*   VariableParser   (src/src/variableParser.ts)                          *)
(*   VariableReplacer (src/unnamed/part_001)                               *)
(*                                                                         *)
(* A text is a sequence of characters; a character is an atomic string.    *)
(* Characters outside ASCII are written by their code point ("U+30E6").    *)
(* Indices kept in records (startIndex, endIndex, position) are 0-based,   *)
(* as in the source; the string helpers convert to TLA+'s 1-based          *)
(* sequences.                                                              *)
(***************************************************************************)
EXTENDS Integers, Sequences, FiniteSets, TLC

VARIABLES
  prompt,          \* replaceVariables: argument `prompt`
  variableValues,  \* replaceVariables: argument `variableValues` (a Map)
  opts,            \* replaceVariables: `opts` (options merged over defaults)
  pc,              \* position inside replaceVariables
  parseResult,     \* local `parseResult`
  errors,          \* local `errors`
  warnings,        \* local `warnings`
  usedVariables,   \* local `usedVariables`
  replacedText,    \* local `replacedText`
  sortedVariables, \* the part of `sortedVariables` the for-loop has not visited
  thrown,          \* the message of the Error thrown inside the try block
  result,          \* the returned VariableReplacementResult
  returnValue,     \* what a call of one of the other public functions returned
  locals,          \* generatePreviewHtml: html, lastIndex, the loop's position
                   \* and the value, hasValue, cssClass of its last iteration
  stack,           \* the VariableEngine functions waiting for a call to return
  patternLastIndex, \* lastIndex of the static RegExp VariableParser.VARIABLE_PATTERN
  calls            \* the calls of replaceVariables that returned before this
                   \* one: their arguments and their result

vars == <<prompt, variableValues, opts, pc, parseResult, errors, warnings,
          usedVariables, replacedText, sortedVariables, thrown, result,
          returnValue, locals, stack, patternLastIndex, calls>>

(***************************************************************************)
(* Characters                                                              *)
(***************************************************************************)
BS == "\\"

AsciiLetters ==
  {"a","b","c","d","e","f","g","h","i","j","k","l","m","n","o","p","q","r",
   "s","t","u","v","w","x","y","z",
   "A","B","C","D","E","F","G","H","I","J","K","L","M","N","O","P","Q","R",
   "S","T","U","V","W","X","Y","Z"}

AsciiDigits == {"0","1","2","3","4","5","6","7","8","9"}

\* \w of a JavaScript regular expression without the u flag
WordChars == AsciiLetters \cup AsciiDigits \cup {"_"}

\* one representative of each non-ASCII range the source names
Hiragana == {"U+3042"}        \* ぀-ゟ
Katakana == {"U+30E6"}        \* ゠-ヿ
CJKUnified == {"U+4E00"}      \* 一-龯
CJKExtensionA == {"U+3400"}   \* 㐀-䶿

\* what String.prototype.trim strips
WhiteSpace == {" ", "\t", "\n"}

undefined == <<"undefined">>

\* the absent `error` of parseVariableContent's result
noError == [type |-> "NONE", message |-> [template |-> "NONE", args |-> <<>>]]

(***************************************************************************)
(* JavaScript string operations                                            *)
(***************************************************************************)
Min(a, b) == IF a < b THEN a ELSE b

Max(a, b) == IF a > b THEN a ELSE b

\* String.prototype.substring(start, end): 0-based, end exclusive, clamped
substring(s, start, end) ==
  LET a == Max(0, Min(start, Len(s)))
      b == Max(0, Min(end, Len(s)))
  IN  SubSeq(s, Min(a, b) + 1, Max(a, b))

substringFrom(s, start) == substring(s, start, Len(s))

RECURSIVE trimStart(_)
trimStart(s) ==
  IF s # <<>> /\ Head(s) \in WhiteSpace THEN trimStart(Tail(s)) ELSE s

RECURSIVE trimEnd(_)
trimEnd(s) ==
  IF s # <<>> /\ s[Len(s)] \in WhiteSpace
  THEN trimEnd(SubSeq(s, 1, Len(s) - 1))
  ELSE s

trim(s) == trimEnd(trimStart(s))

\* String.prototype.indexOf(ch): 0-based, -1 when absent
indexOf(s, ch) ==
  LET hits == {i \in 1..Len(s) : s[i] = ch}
  IN  IF hits = {} THEN -1
      ELSE (CHOOSE i \in hits : \A j \in hits : i <= j) - 1

includes(s, ch) == \E i \in 1..Len(s) : s[i] = ch

\* s.replace(/\\<ch>/g, to): every backslash followed by ch, scanned left
\* to right without overlap, becomes `to`
RECURSIVE replaceEscaped(_, _, _)
replaceEscaped(s, ch, to) ==
  LET hits == {i \in 1..(Len(s) - 1) : s[i] = BS /\ s[i + 1] = ch} IN
  IF hits = {} THEN s
  ELSE LET i == CHOOSE k \in hits : \A m \in hits : k <= m
       IN  SubSeq(s, 1, i - 1) \o <<to>> \o
           replaceEscaped(SubSeq(s, i + 2, Len(s)), ch, to)

(***************************************************************************)
(* VariableParser                                                          *)
(***************************************************************************)
MAX_VARIABLE_NAME_LENGTH == 100

DEFAULT_VALUE_SEPARATOR == ":"

\* the number of consecutive backslashes that end just before 0-based i
backslashesBefore(text, i) ==
  Cardinality({k \in 1..i : \A m \in k..i : text[m] = BS})

\* mutant: a lookbehind that counts the backslashes, so that a brace after
\* an even number of them is unescaped
patternMatchEnd_parity(text, i) ==
  IF i < 0 \/ i >= Len(text) THEN -1
  ELSE IF text[i + 1] # "{" THEN -1
  ELSE IF backslashesBefore(text, i) % 2 = 1 THEN -1
  ELSE LET braces == {j \in (i + 1)..(Len(text) - 1) : text[j + 1] \in {"{", "}"}}
       IN  IF braces = {} THEN -1
           ELSE LET j == CHOOSE k \in braces : \A m \in braces : k <= m
                IN  IF text[j + 1] = "}" THEN j ELSE -1

\* mutant: the pattern without its lookbehind, /\{([^{}]*?)\}/g
patternMatchEnd_noLookbehind(text, i) ==
  IF i < 0 \/ i >= Len(text) THEN -1
  ELSE IF text[i + 1] # "{" THEN -1
  ELSE LET braces == {j \in (i + 1)..(Len(text) - 1) : text[j + 1] \in {"{", "}"}}
       IN  IF braces = {} THEN -1
           ELSE LET j == CHOOSE k \in braces : \A m \in braces : k <= m
                IN  IF text[j + 1] = "}" THEN j ELSE -1

\* VARIABLE_PATTERN = /(?<!\\)\{([^{}]*?)\}/g tried at 0-based position i:
\* the 0-based index of the closing brace, or -1 when there is no match at i
patternMatchEnd(text, i) ==
  IF i < 0 \/ i >= Len(text) THEN -1
  ELSE IF text[i + 1] # "{" THEN -1
  ELSE IF i > 0 /\ text[i] = BS THEN -1
  ELSE LET braces == {j \in (i + 1)..(Len(text) - 1) : text[j + 1] \in {"{", "}"}}
       IN  IF braces = {} THEN -1
           ELSE LET j == CHOOSE k \in braces : \A m \in braces : k <= m
                IN  IF text[j + 1] = "}" THEN j ELSE -1

\* pattern.exec(prompt) with pattern.lastIndex = lastIndex: the 0-based
\* index of the leftmost match at or after lastIndex, or -1 (null)
patternExec(text, lastIndex) ==
  LET starts == {i \in lastIndex..(Len(text) - 1) : patternMatchEnd(text, i) >= 0}
  IN  IF starts = {} THEN -1
      ELSE CHOOSE i \in starts : \A k \in starts : i <= k

validNamePattern(variableName) ==
  /\ Len(variableName) >= 1
  /\ \A i \in 1..Len(variableName) :
       variableName[i] \in
         WordChars \cup Hiragana \cup Katakana \cup CJKUnified \cup CJKExtensionA

\* mutant: the length check is missing
validateVariableName_noLength(variableName) ==
  IF includes(variableName, "{") \/ includes(variableName, "}")
  THEN FALSE
  ELSE validNamePattern(variableName)

validateVariableName(variableName) ==
  IF Len(variableName) = 0 \/ Len(variableName) > MAX_VARIABLE_NAME_LENGTH
  THEN FALSE
  ELSE IF includes(variableName, "{") \/ includes(variableName, "}")
  THEN FALSE
  ELSE validNamePattern(variableName)

unescapeDefaultValue(defaultValue) ==
  replaceEscaped(
    replaceEscaped(
      replaceEscaped(
        replaceEscaped(defaultValue, ":", ":"),
        "{", "{"),
      "}", "}"),
    BS, BS)

unescapeText(text) ==
  replaceEscaped(
    replaceEscaped(
      replaceEscaped(
        replaceEscaped(text, "{", "{"),
        "}", "}"),
      ":", ":"),
    BS, BS)

EmptyNameError(content) ==
  [variableName |-> undefined, defaultValue |-> undefined,
   error |-> [type |-> "EMPTY_VARIABLE_NAME",
              message |-> [template |-> "EMPTY_VARIABLE_NAME",
                          args |-> << <<"{">> \o content \o <<"}">> >>]]]

MalformedNameError(variableName) ==
  [variableName |-> undefined, defaultValue |-> undefined,
   error |-> [type |-> "MALFORMED_VARIABLE",
              message |-> [template |-> "MALFORMED_VARIABLE",
                          args |-> <<variableName>>]]]

parseVariableContent(content) ==
  IF content = <<>> \/ trim(content) = <<>> THEN EmptyNameError(content)
  ELSE
    LET separatorIndex == indexOf(content, DEFAULT_VALUE_SEPARATOR) IN
    IF separatorIndex = -1
    THEN LET variableName == trim(content) IN
         IF validateVariableName(variableName)
         THEN [variableName |-> variableName, defaultValue |-> undefined,
               error |-> noError]
         ELSE MalformedNameError(variableName)
    ELSE LET variableName == trim(substring(content, 0, separatorIndex))
             defaultValue == substringFrom(content, separatorIndex + 1)
         IN  IF variableName = <<>> THEN EmptyNameError(content)
             ELSE IF ~validateVariableName(variableName)
             THEN MalformedNameError(variableName)
             ELSE [variableName |-> variableName,
                   defaultValue |-> unescapeDefaultValue(defaultValue),
                   error |-> noError]

LONG_NAME_WARNING_LENGTH == 50

\* /[^a-zA-Z0-9぀-ゟ゠-ヿ一-龯_-]/.test(name)
hasSpecialCharacter(name) ==
  \E i \in 1..Len(name) :
    name[i] \notin
      AsciiLetters \cup AsciiDigits \cup Hiragana \cup Katakana \cup CJKUnified
        \cup {"_", "-"}

checkVariableWarnings(variable) ==
  (IF Len(variable.name) > LONG_NAME_WARNING_LENGTH
   THEN << [type |-> "LONG_VARIABLE_NAME",
            message |-> [template |-> "LONG_VARIABLE_NAME",
                        args |-> <<variable.name>>],
            variableName |-> variable.name] >>
   ELSE <<>>)
  \o
  (IF hasSpecialCharacter(variable.name)
   THEN << [type |-> "SPECIAL_CHARACTERS_IN_NAME",
            message |-> [template |-> "SPECIAL_CHARACTERS_IN_NAME",
                        args |-> <<variable.name>>],
            variableName |-> variable.name] >>
   ELSE <<>>)

\* the Map of checkDuplicateVariables after the first n variables: the
\* first occurrence of `name` among them, or 0
firstOccurrence(variables, n, name) ==
  LET hits == {i \in 1..n : variables[i].name = name}
  IN  IF hits = {} THEN 0 ELSE CHOOSE i \in hits : \A j \in hits : i <= j

RECURSIVE duplicateWarnings(_, _)
duplicateWarnings(variables, n) ==
  IF n = 0 THEN <<>>
  ELSE LET variable == variables[n]
           e == firstOccurrence(variables, n - 1, variable.name)
       IN  duplicateWarnings(variables, n - 1) \o
           (IF e # 0 /\ variables[e].defaultValue # variable.defaultValue
            THEN << [type |-> "UNDEFINED_VARIABLE",
                     message |-> [template |-> "DIFFERENT_DEFAULTS",
                                 args |-> <<variable.name,
                                            variables[e].defaultValue,
                                            variable.defaultValue>>],
                     variableName |-> variable.name] >>
            ELSE <<>>)

checkDuplicateVariables(variables, warns) ==
  warns \o duplicateWarnings(variables, Len(variables))

\* errors.push({...}) of the while loop
newParseError(content, startIndex, endIndex, fullMatch) ==
  [type |-> content.error.type,
   message |-> content.error.message,
   position |-> [start |-> startIndex, end |-> endIndex],
   variableName |-> content.variableName,
   rawText |-> fullMatch]

\* mutant: endIndex = match.index + fullMatch.length (one past the brace)
newVariable_endPastBrace(content, startIndex, endIndex, fullMatch) ==
  [name |-> content.variableName,
   defaultValue |-> content.defaultValue,
   startIndex |-> startIndex,
   endIndex |-> endIndex + 1,
   rawText |-> fullMatch]

\* const variable: Variable = {...} of the while loop
newVariable(content, startIndex, endIndex, fullMatch) ==
  [name |-> content.variableName,
   defaultValue |-> content.defaultValue,
   startIndex |-> startIndex,
   endIndex |-> endIndex,
   rawText |-> fullMatch]

pushVariable(acc, variable) ==
  [acc EXCEPT !.variables = Append(@, variable),
              !.warnings = @ \o checkVariableWarnings(variable)]

\* the body of the while loop for one match: fullMatch = match[0],
\* content = parseVariableContent(match[1])
parseMatch(acc, content, startIndex, endIndex, fullMatch) ==
  IF content.error # noError
  THEN [acc EXCEPT !.errors =
          Append(@, newParseError(content, startIndex, endIndex, fullMatch))]
  ELSE pushVariable(acc, newVariable(content, startIndex, endIndex, fullMatch))

\* the while loop of parseVariables from pattern.lastIndex = lastIndex on,
\* with the variables, errors and warnings collected so far in acc
RECURSIVE parseLoop(_, _, _)
parseMatchAt(text, startIndex, endIndex, acc) ==
  parseLoop(text, endIndex + 1,
    parseMatch(acc,
               parseVariableContent(substring(text, startIndex + 1, endIndex)),
               startIndex, endIndex,
               substring(text, startIndex, endIndex + 1)))

parseFrom(text, startIndex, acc) ==
  IF startIndex = -1 THEN acc
  ELSE parseMatchAt(text, startIndex, patternMatchEnd(text, startIndex), acc)

parseLoop(text, lastIndex, acc) ==
  parseFrom(text, patternExec(text, lastIndex), acc)

withDuplicateWarnings(r) ==
  [r EXCEPT !.warnings = checkDuplicateVariables(r.variables, @)]

parseVariables(text) ==
  withDuplicateWarnings(
    parseLoop(text, 0, [variables |-> <<>>, errors |-> <<>>, warnings |-> <<>>]))

\* the characters `.` does not match in a regular expression without the
\* s flag
LineTerminators == {"\n", "\r", "U+2028", "U+2029"}

\* escapePattern.exec(prompt) with escapePattern = /\\./g and lastIndex:
\* the 0-based index of the leftmost backslash at or after lastIndex that
\* is followed by a character `.` matches, or -1 (null)
escapeExec(text, lastIndex) ==
  LET hits == {i \in lastIndex..(Len(text) - 2) :
                 text[i + 1] = BS /\ text[i + 2] \notin LineTerminators}
  IN  IF hits = {} THEN -1
      ELSE CHOOSE i \in hits : \A k \in hits : i <= k

validEscapes == {"{", "}", ":", BS}

\* errors.push({...}) of validateEscapeSequences for the match at index
newEscapeError(text, index) ==
  [type |-> "INVALID_ESCAPE",
   message |-> [template |-> "INVALID_ESCAPE",
                args |-> <<substring(text, index, index + 2)>>],
   position |-> [start |-> index, end |-> index + 1],
   rawText |-> substring(text, index, index + 2)]

\* the while loop of validateEscapeSequences from escapePattern.lastIndex
\* on, with the errors collected so far
RECURSIVE escapeLoop(_, _, _)
escapeMatchAt(text, index, errs) ==
  escapeLoop(text, index + 2,
             IF text[index + 2] \in validEscapes THEN errs
             ELSE Append(errs, newEscapeError(text, index)))

escapeFrom(text, index, errs) ==
  IF index = -1 THEN errs ELSE escapeMatchAt(text, index, errs)

escapeLoop(text, lastIndex, errs) ==
  escapeFrom(text, escapeExec(text, lastIndex), errs)

validateEscapeSequences(text) == escapeLoop(text, 0, <<>>)

(***************************************************************************)
(* VariableReplacer                                                        *)
(***************************************************************************)
DEFAULT_MAX_CIRCULAR_CHECK == 10

\* variableValues.has(name) / variableValues.get(name)
has(values, name) == name \in DOMAIN values

get(values, name) == IF name \in DOMAIN values THEN values[name] ELSE undefined

\* mutant: `variableValues.get(name) || variable.defaultValue || ''`, the
\* falsy chain of generatePreviewHtml, in place of the has/undefined tests
resolveVariableValue_falsy(variable, values, options) ==
  IF get(values, variable.name) # undefined /\ get(values, variable.name) # <<>>
  THEN get(values, variable.name)
  ELSE IF variable.defaultValue # undefined /\ variable.defaultValue # <<>>
  THEN variable.defaultValue
  ELSE IF options.emptyIfUndefined THEN <<>> ELSE variable.rawText

resolveVariableValue(variable, values, options) ==
  IF has(values, variable.name) THEN get(values, variable.name)
  ELSE IF variable.defaultValue # undefined THEN variable.defaultValue
  ELSE IF options.emptyIfUndefined THEN <<>> ELSE variable.rawText

\* the for-loop of extractVariableReferences over the first n variables
RECURSIVE referencesAmong(_, _, _)
referencesAmong(variables, n, allVariables) ==
  IF n = 0 THEN <<>>
  ELSE referencesAmong(variables, n - 1, allVariables) \o
       (IF variables[n].name \in allVariables
        THEN <<variables[n].name>>
        ELSE <<>>)

allOf(variables, allVariables) ==
  referencesAmong(variables, Len(variables), allVariables)

\* mutant: every reference found in the value is kept, whether or not the
\* name is a variable of the template (the test of `allVariables.has` removed)
extractVariableReferences_all(text, allVariables) ==
  allOf(parseVariables(text).variables,
        {parseVariables(text).variables[i].name :
           i \in 1..Len(parseVariables(text).variables)})

extractVariableReferences(text, allVariables) ==
  allOf(parseVariables(text).variables, allVariables)

RECURSIVE hasCircularReference(_, _, _, _, _)
\* mutant: the visited set is shared between the branches of the loop
\* instead of copied (`new Set(visited)` removed): the references reached
\* before, and the references found in their values, count as visited
anyCircular_sharedVisited(referencedVars, values, allVariables, visited, depth) ==
  \E i \in 1..Len(referencedVars) :
    hasCircularReference(
      referencedVars[i], values, allVariables,
      visited \cup {referencedVars[j] : j \in 1..(i - 1)}
              \cup UNION {{extractVariableReferences(
                              get(values, referencedVars[j]), allVariables)[n] :
                             n \in 1..Len(extractVariableReferences(
                                    get(values, referencedVars[j]), allVariables))} :
                          j \in 1..(i - 1)},
      depth)

\* the loop over referencedVars: some reference has a circular reference
anyCircular(referencedVars, values, allVariables, visited, depth) ==
  \E i \in 1..Len(referencedVars) :
    hasCircularReference(referencedVars[i], values, allVariables, visited, depth)

\* `if (value) {...}` with value = variableValues.get(currentVar)
followValue(value, values, allVariables, visited, depth) ==
  IF value # undefined /\ value # <<>>
  THEN anyCircular(extractVariableReferences(value, allVariables),
                   values, allVariables, visited, depth)
  ELSE FALSE

\* mutant: the search without its depth guard (`if (depth <= 0)` removed)
hasCircularReference_noDepthGuard(currentVar, values, allVariables, visited, depth) ==
  IF currentVar \in visited THEN TRUE
  ELSE followValue(get(values, currentVar), values, allVariables,
                   visited \cup {currentVar}, depth - 1)

hasCircularReference(currentVar, values, allVariables, visited, depth) ==
  IF depth <= 0 THEN FALSE
  ELSE IF currentVar \in visited THEN TRUE
  ELSE followValue(get(values, currentVar), values, allVariables,
                   visited \cup {currentVar}, depth - 1)

\* the references of the for-loop of hasCircularReference that are reached:
\* the loop returns at the first reference found circular
calledRefs(referencedVars, values, allVariables, visited, depth) ==
  {i \in 1..Len(referencedVars) :
     \A j \in 1..(i - 1) :
       ~hasCircularReference(referencedVars[j], values, allVariables,
                             visited, depth)}

\* the deepest nesting of calls of hasCircularReference that one call
\* builds, itself included: a call that returns at one of its two guards
\* calls nothing, any other calls itself for the references reached
RECURSIVE nestedCalls(_, _, _, _, _)
nestedCalls(currentVar, values, allVariables, visited, depth) ==
  IF depth <= 0 \/ currentVar \in visited THEN 1
  ELSE LET value == get(values, currentVar)
           referencedVars ==
             IF value # undefined /\ value # <<>>
             THEN extractVariableReferences(value, allVariables)
             ELSE <<>>
           below ==
             {nestedCalls(referencedVars[i], values, allVariables,
                          visited \cup {currentVar}, depth - 1) :
                i \in calledRefs(referencedVars, values, allVariables,
                                 visited \cup {currentVar}, depth - 1)}
       IN  1 + (IF below = {} THEN 0
                ELSE CHOOSE m \in below : \A n \in below : n <= m)

\* the caller's `path` array after hasCircularReference returns: the
\* recursive calls push onto copies ([...path]), the call itself pushes
\* currentVar once it is past its two guards
pathAfterCall(currentVar, visited, path, depth) ==
  IF depth <= 0 \/ currentVar \in visited THEN path
  ELSE Append(path, currentVar)

newCircularError(name, maxDepth) ==
  [type |-> "CIRCULAR_REFERENCE",
   message |-> [template |-> "CIRCULAR_REFERENCE",
                args |-> pathAfterCall(name, {}, <<>>, maxDepth)],
   variableName |-> name]

namesOf(variables) == {variables[i].name : i \in 1..Len(variables)}

\* the for-loop of checkCircularReferences over the first n variables
RECURSIVE circularErrorsFrom(_, _, _, _)
circularErrorsFrom(variables, n, values, maxDepth) ==
  IF n = 0 THEN <<>>
  ELSE circularErrorsFrom(variables, n - 1, values, maxDepth) \o
       (IF hasCircularReference(variables[n].name, values, namesOf(variables),
                                {}, maxDepth)
        THEN <<newCircularError(variables[n].name, maxDepth)>>
        ELSE <<>>)

checkCircularReferences(variables, values, maxDepth) ==
  circularErrorsFrom(variables, Len(variables), values, maxDepth)

\* Array.prototype.sort((a, b) => b.startIndex - a.startIndex)
\* mutant: the variables are left in source order (ascending startIndex)
sortByStartIndexDescending_unsorted(variables) == variables

RECURSIVE insertDescending(_, _)
insertDescending(sorted, v) ==
  IF sorted = <<>> THEN <<v>>
  ELSE IF v.startIndex > Head(sorted).startIndex THEN <<v>> \o sorted
  ELSE <<Head(sorted)>> \o insertDescending(Tail(sorted), v)

RECURSIVE sortByStartIndexDescending(_)
sortByStartIndexDescending(variables) ==
  IF variables = <<>> THEN <<>>
  ELSE insertDescending(sortByStartIndexDescending(Tail(variables)),
                        Head(variables))

\* mutant: the splice resumes at endIndex, keeping the closing brace
spliceVariable_keepsBrace(text, variable, value) ==
  substring(text, 0, variable.startIndex) \o value \o
  substringFrom(text, variable.endIndex)

\* one splice of the for-loop
spliceVariable(text, variable, value) ==
  substring(text, 0, variable.startIndex) \o value \o
  substringFrom(text, variable.endIndex + 1)

noParseResult == [variables |-> <<>>, errors |-> <<>>, warnings |-> <<>>]

noResult == [replacedText |-> <<>>, usedVariables |-> <<>>,
             errors |-> <<>>, warnings |-> <<>>]

\* mutant: the loop runs exec on the static VARIABLE_PATTERN and stops
\* after its first match, which leaves lastIndex behind that match
patternAfterParse_shared(staticLastIndex, text) ==
  IF patternExec(text, 0) = -1 THEN 0
  ELSE patternMatchEnd(text, patternExec(text, 0)) + 1

\* VARIABLE_PATTERN.lastIndex after parseVariables(text): the loop runs exec
\* on `new RegExp(this.VARIABLE_PATTERN.source, 'g')`, an object of its own
\* whose lastIndex starts at 0, and reads nothing but .source of the static
patternAfterParse(staticLastIndex, text) == staticLastIndex

\* lines 51-59 with r = parseResult
afterParse(r) ==
  /\ parseResult' = r
  /\ errors' = errors \o r.errors
  /\ IF Len(r.errors) > 0 /\ opts.throwOnError
     THEN /\ thrown' = [template |-> "PARSE_ERROR", args |-> <<r.errors[1].message>>]
          /\ pc' = "catch"
          /\ UNCHANGED warnings
     ELSE /\ warnings' = warnings \o r.warnings
          /\ pc' = "circular"
          /\ UNCHANGED thrown

\* try: parseVariables, then the parse errors and the first throw
Parse ==
  /\ pc = "start"
  /\ afterParse(parseVariables(prompt))
  /\ patternLastIndex' = patternAfterParse(patternLastIndex, prompt)
  /\ UNCHANGED <<calls, stack, returnValue, locals, prompt, variableValues, opts, usedVariables, replacedText,
                 sortedVariables, result>>

\* lines 63-72 with the circularErrors found and the variables sorted
afterCircularCheck(circularErrors, sorted) ==
  /\ errors' = errors \o circularErrors
  /\ IF Len(circularErrors) > 0 /\ opts.throwOnError
     THEN /\ thrown' = [template |-> "CIRCULAR_ERROR",
                        args |-> <<circularErrors[1].message>>]
          /\ pc' = "catch"
          /\ UNCHANGED <<parseResult, replacedText, sortedVariables>>
     ELSE /\ replacedText' = prompt
          /\ sortedVariables' = sorted
          /\ parseResult' = [parseResult EXCEPT !.variables = sorted]
          /\ pc' = "loop"
          /\ UNCHANGED thrown

\* the circular reference check, the second throw, and the in-place sort
CheckCircular ==
  /\ pc = "circular"
  /\ afterCircularCheck(
       checkCircularReferences(parseResult.variables, variableValues,
                               opts.maxCircularCheck),
       sortByStartIndexDescending(parseResult.variables))
  /\ UNCHANGED <<calls, patternLastIndex, stack, returnValue, locals, prompt, variableValues, opts, warnings, usedVariables, result>>

isUsed(name) == \E i \in 1..Len(usedVariables) : usedVariables[i] = name

newUndefinedWarning(name) ==
  [type |-> "UNDEFINED_VARIABLE",
   message |-> [template |-> "UNDEFINED_VARIABLE", args |-> <<name>>],
   variableName |-> name]

\* `!variable.defaultValue`: undefined and the empty string are falsy
isFalsy(value) == value = undefined \/ value = <<>>

\* the body of the for-loop for `variable`
replaceVariable(variable) ==
  /\ replacedText' =
       spliceVariable(replacedText, variable,
                      resolveVariableValue(variable, variableValues, opts))
  /\ usedVariables' =
       IF isUsed(variable.name) THEN usedVariables
       ELSE Append(usedVariables, variable.name)
  /\ warnings' =
       IF ~has(variableValues, variable.name) /\ isFalsy(variable.defaultValue)
       THEN Append(warnings, newUndefinedWarning(variable.name))
       ELSE warnings

\* one iteration of `for (const variable of sortedVariables)`
ReplaceOne ==
  /\ pc = "loop"
  /\ sortedVariables # <<>>
  /\ replaceVariable(Head(sortedVariables))
  /\ sortedVariables' = Tail(sortedVariables)
  /\ UNCHANGED <<calls, patternLastIndex, stack, returnValue, locals, prompt, variableValues, opts, pc, parseResult, errors,
                 thrown, result>>

\* after the loop: unescapeText and the return of the try block
Return ==
  /\ pc = "loop"
  /\ sortedVariables = <<>>
  /\ replacedText' = unescapeText(replacedText)
  /\ result' = [replacedText |-> replacedText',
                usedVariables |-> usedVariables,
                errors |-> errors,
                warnings |-> warnings]
  /\ pc' = "returned"
  /\ UNCHANGED <<calls, patternLastIndex, stack, returnValue, locals, prompt, variableValues, opts, parseResult, errors, warnings,
                 usedVariables, sortedVariables, thrown>>

\* mutant: the catch block returns the unescaped prompt and the names used
Catch_unescapes ==
  /\ pc = "catch"
  /\ errors' = Append(errors,
       [type |-> "MALFORMED_VARIABLE",
        message |-> [template |-> "REPLACE_ERROR", args |-> <<thrown>>]])
  /\ result' = [replacedText |-> unescapeText(prompt),
                usedVariables |-> usedVariables,
                errors |-> errors',
                warnings |-> warnings]
  /\ pc' = "returned"
  /\ UNCHANGED <<calls, patternLastIndex, stack, returnValue, locals, prompt, variableValues, opts, parseResult, warnings,
                 usedVariables, replacedText, sortedVariables, thrown>>

\* the catch block
Catch ==
  /\ pc = "catch"
  /\ errors' = Append(errors,
       [type |-> "MALFORMED_VARIABLE",
        message |-> [template |-> "REPLACE_ERROR", args |-> <<thrown>>]])
  /\ result' = [replacedText |-> prompt,
                usedVariables |-> <<>>,
                errors |-> errors',
                warnings |-> warnings]
  /\ pc' = "returned"
  /\ UNCHANGED <<calls, patternLastIndex, stack, returnValue, locals, prompt, variableValues, opts, parseResult, warnings,
                 usedVariables, replacedText, sortedVariables, thrown>>

\* parseResult.variables.find(v => v.name === varName)
find(variables, varName) ==
  variables[firstOccurrence(variables, Len(variables), varName)]

\* the loop of getVariableStats over uniqueNames: definedCount
definedCount(variables, values) ==
  Cardinality({varName \in namesOf(variables) : has(values, varName)})

\* the loop of getVariableStats over uniqueNames: defaultCount
defaultCount(variables) ==
  Cardinality({varName \in namesOf(variables) :
                 find(variables, varName).defaultValue # undefined})

\* the object getVariableStats returns, for the variables parsed
statsOf(variables, values) ==
  [totalVariables |-> Len(variables),
   uniqueVariables |-> Cardinality(namesOf(variables)),
   definedVariables |-> definedCount(variables, values),
   undefinedVariables |->
     Cardinality(namesOf(variables)) - definedCount(variables, values),
   variablesWithDefaults |-> defaultCount(variables)]

getVariableStats(text, values) ==
  statsOf(parseVariables(text).variables, values)

\* VariableReplacer.getVariableStats(prompt, variableValues)
GetVariableStats ==
  /\ pc = "getVariableStats"
  /\ returnValue' = getVariableStats(prompt, variableValues)
  /\ pc' = "counted"
  /\ UNCHANGED <<calls, patternLastIndex, stack, locals, prompt, variableValues, opts, parseResult, errors,
                 warnings, usedVariables, replacedText, sortedVariables,
                 thrown, result>>

\* the fixed pieces of the markup of generatePreviewHtml
AMP == <<"&","a","m","p",";">>

LT == <<"&","l","t",";">>

GT == <<"&","g","t",";">>

QUOT == <<"&","q","u","o","t",";">>

APOS == <<"&","#","3","9",";">>

VARIABLE_DEFINED == <<"v","a","r","i","a","b","l","e","-","d","e","f","i","n","e","d">>

VARIABLE_UNDEFINED ==
  <<"v","a","r","i","a","b","l","e","-","u","n","d","e","f","i","n","e","d">>

SPAN_CLASS == <<"<","s","p","a","n"," ","c","l","a","s","s","=","\"">>

TITLE_NAME == <<"\""," ","t","i","t","l","e","=","\"","U+5909","U+6570",":"," ">>

TITLE_VALUE == <<","," ","U+5024",":"," ">>

TITLE_END == <<"\"",">">>

SPAN_CLOSE == <<"<","/","s","p","a","n",">">>

\* escapeHtml: &, <, >, ", ' become entities; replacing & first and the
\* others after it comes to replacing each character of the text on its own
escapeHtmlChar(ch) ==
  CASE ch = "&" -> AMP
    [] ch = "<" -> LT
    [] ch = ">" -> GT
    [] ch = "\"" -> QUOT
    [] ch = "'" -> APOS
    [] OTHER -> <<ch>>

RECURSIVE escapeHtml(_)
escapeHtml(text) ==
  IF text = <<>> THEN <<>>
  ELSE escapeHtmlChar(Head(text)) \o escapeHtml(Tail(text))

\* `variableValues.get(variable.name) || variable.defaultValue || ''`
previewValue(variable, values) ==
  IF ~isFalsy(get(values, variable.name)) THEN get(values, variable.name)
  ELSE IF ~isFalsy(variable.defaultValue) THEN variable.defaultValue
  ELSE <<>>

\* `variableValues.has(variable.name) || variable.defaultValue !== undefined`
hasValue(variable, values) ==
  has(values, variable.name) \/ variable.defaultValue # undefined

cssClass(hasVal) ==
  IF hasVal THEN "variable-defined" ELSE "variable-undefined"

cssClassText(class) ==
  IF class = "variable-defined" THEN VARIABLE_DEFINED ELSE VARIABLE_UNDEFINED

\* the template literal of line 271
spanHtml(class, name, value, rawText) ==
  SPAN_CLASS \o cssClassText(class) \o TITLE_NAME \o name \o TITLE_VALUE \o
  value \o TITLE_END \o
  escapeHtml(IF value # <<>> THEN value ELSE rawText) \o SPAN_CLOSE

\* one iteration of the for-loop of generatePreviewHtml for `variable`,
\* the index-th of parseResult.variables
previewVariable(variable, index, value, hasVal) ==
  locals' =
    [html |-> locals.html \o
              escapeHtml(substring(prompt, locals.lastIndex, variable.startIndex)) \o
              spanHtml(cssClass(hasVal), variable.name, value, variable.rawText),
     lastIndex |-> variable.endIndex + 1,
     index |-> index,
     value |-> value,
     hasValue |-> hasVal,
     cssClass |-> cssClass(hasVal)]

noLocals ==
  [html |-> <<>>, lastIndex |-> 0, index |-> 0, value |-> <<>>,
   hasValue |-> FALSE, cssClass |-> ""]

\* generatePreviewHtml: parseVariables(prompt), html = '', lastIndex = 0
PreviewParse ==
  /\ pc = "generatePreviewHtml"
  /\ parseResult' = parseVariables(prompt)
  /\ locals' = noLocals
  /\ pc' = "preview"
  /\ UNCHANGED <<calls, patternLastIndex, stack, returnValue, prompt, variableValues, opts, errors, warnings,
                 usedVariables, replacedText, sortedVariables, thrown, result>>

\* one iteration of `for (const variable of parseResult.variables)`
PreviewOne ==
  /\ pc = "preview"
  /\ locals.index < Len(parseResult.variables)
  /\ previewVariable(parseResult.variables[locals.index + 1], locals.index + 1,
                     previewValue(parseResult.variables[locals.index + 1],
                                  variableValues),
                     hasValue(parseResult.variables[locals.index + 1],
                              variableValues))
  /\ UNCHANGED <<calls, patternLastIndex, stack, returnValue, prompt, variableValues, opts, pc, parseResult,
                 errors, warnings, usedVariables, replacedText,
                 sortedVariables, thrown, result>>

\* after the loop: the rest of the text, unescapeText, return
PreviewReturn ==
  /\ pc = "preview"
  /\ locals.index = Len(parseResult.variables)
  /\ locals' = [locals EXCEPT !.html =
                  @ \o escapeHtml(substringFrom(prompt, locals.lastIndex))]
  /\ returnValue' = unescapeText(locals'.html)
  /\ pc' = "previewed"
  /\ UNCHANGED <<calls, patternLastIndex, stack, prompt, variableValues, opts, parseResult, errors, warnings,
                 usedVariables, replacedText, sortedVariables, thrown, result>>

\* VariableParser.validateEscapeSequences(prompt), called on its own
ValidateEscapeSequences ==
  /\ pc = "validateEscapeSequences"
  /\ returnValue' = validateEscapeSequences(prompt)
  /\ pc' = "validated"
  /\ UNCHANGED <<calls, patternLastIndex, stack, locals, prompt, variableValues, opts, parseResult, errors,
                 warnings, usedVariables, replacedText, sortedVariables,
                 thrown, result>>

(***************************************************************************)
(* VariableEngine (src/unnamed/part_000)                                   *)
(***************************************************************************)
\* one entry of `parts`: a label and the count written after it
part(label, count) == [label |-> label, count |-> count]

partIf(cond, label, count) == IF cond THEN <<part(label, count)>> ELSE <<>>

\* generateSummary: the parts pushed, in order (joined by ', ' in the source)
summaryParts(stats, totalErrors, totalWarnings) ==
  <<part("VARIABLES", stats.uniqueVariables)>> \o
  partIf(stats.definedVariables > 0, "DEFINED", stats.definedVariables) \o
  partIf(stats.undefinedVariables > 0, "UNDEFINED", stats.undefinedVariables) \o
  partIf(stats.variablesWithDefaults > 0, "WITH_DEFAULTS",
         stats.variablesWithDefaults) \o
  partIf(totalErrors > 0, "ERRORS", totalErrors) \o
  partIf(totalWarnings > 0, "WARNINGS", totalWarnings) \o
  (IF totalErrors = 0 /\ totalWarnings = 0 THEN <<[label |-> "OK"]>> ELSE <<>>)

generateSummary(parsed, replacementResult, stats, escapeErrors) ==
  summaryParts(stats,
               Len(parsed.errors) + Len(replacementResult.errors) +
                 Len(escapeErrors),
               Len(parsed.warnings) + Len(replacementResult.warnings))

\* mutant: isValid looks at the errors of parse and replace only
isValidOf_ignoresEscapes(parsed, replacementResult, escapeErrors) ==
  Len(parsed.errors) = 0 /\ Len(replacementResult.errors) = 0

\* `const isValid = ...` of analyzePrompt
isValidOf(parsed, replacementResult, escapeErrors) ==
  /\ Len(parsed.errors) = 0
  /\ Len(replacementResult.errors) = 0
  /\ Len(escapeErrors) = 0

\* the object analyzePrompt returns
analysisOf(parsed, replacementResult, stats, escapeErrors) ==
  [parseResult |-> parsed,
   replacementResult |-> replacementResult,
   stats |-> stats,
   escapeErrors |-> escapeErrors,
   isValid |-> isValidOf(parsed, replacementResult, escapeErrors),
   summary |-> generateSummary(parsed, replacementResult, stats, escapeErrors)]

\* analyzePrompt up to its call of replaceVariables (its own parseVariables
\* call returns a result of its own, which the call does not touch)
AnalyzeCall ==
  /\ pc = "analyzePrompt"
  /\ stack' = <<"analyzePrompt">>
  /\ pc' = "start"
  /\ UNCHANGED <<calls, patternLastIndex, returnValue, locals, prompt, variableValues, opts,
                 parseResult, errors, warnings, usedVariables, replacedText,
                 sortedVariables, thrown, result>>

\* analyzePrompt from the return of replaceVariables on
AnalyzeReturn ==
  /\ pc = "returned"
  /\ stack = <<"analyzePrompt">>
  /\ returnValue' = analysisOf(parseVariables(prompt), result,
                               getVariableStats(prompt, variableValues),
                               validateEscapeSequences(prompt))
  /\ stack' = <<>>
  /\ pc' = "analyzed"
  /\ UNCHANGED <<calls, patternLastIndex, locals, prompt, variableValues, opts, parseResult, errors,
                 warnings, usedVariables, replacedText, sortedVariables,
                 thrown, result>>

\* one entry of `suggestions`: the sentence pushed and the count it quotes
suggestion(label, count) == [label |-> label, count |-> count]

suggestionIf(cond, label, count) ==
  IF cond THEN <<suggestion(label, count)>> ELSE <<>>

\* the suggestions validatePrompt pushes, in order
suggestionsOf(errs, warns, variables, stats) ==
  suggestionIf(Len(errs) > 0, "FIX_ERRORS", 0) \o
  suggestionIf(Len(warns) > 0, "CHECK_WARNINGS", 0) \o
  suggestionIf(Len(variables) = 0, "ADD_VARIABLES", 0) \o
  suggestionIf(stats.undefinedVariables > 0, "SET_DEFAULTS",
               stats.undefinedVariables)

\* the object validatePrompt returns, with errors = [...parseResult.errors,
\* ...escapeErrors], warnings = [...parseResult.warnings] and stats =
\* getStats(prompt), the value map left to its default (an empty Map)
validationOf(errs, warns, variables, stats) ==
  [isValid |-> Len(errs) = 0,
   errors |-> errs,
   warnings |-> warns,
   suggestions |-> suggestionsOf(errs, warns, variables, stats)]

validatePrompt(text) ==
  validationOf(parseVariables(text).errors \o validateEscapeSequences(text),
               parseVariables(text).warnings,
               parseVariables(text).variables,
               getVariableStats(text, <<>>))

\* VariableEngine.validatePrompt(prompt)
ValidatePrompt ==
  /\ pc = "validatePrompt"
  /\ returnValue' = validatePrompt(prompt)
  /\ pc' = "promptValidated"
  /\ UNCHANGED <<calls, patternLastIndex, stack, locals, prompt, variableValues, opts, parseResult,
                 errors, warnings, usedVariables, replacedText,
                 sortedVariables, thrown, result>>

(***************************************************************************)
(* The calls explored: replaceVariables(prompt, variableValues, options)   *)
(* and the other public functions on the same arguments                    *)
(***************************************************************************)
MaxLen == 4

Chars == {"{", "}", BS, ":", "a", " "}

\* every text over Chars of at most MaxLen characters
ShortTexts == UNION {[1..k -> Chars] : k \in 0..MaxLen}

Repeat(ch, n) == [i \in 1..n |-> ch]

\* the examples of the README and of the design notes, and texts at the
\* limits the source names (MAX_VARIABLE_NAME_LENGTH, the warning length)
DocTexts ==
  { <<BS,"{","l","i","t","e","r","a","l",BS,"}">>,
    <<"{","a","}"," ","a","n","d"," ","{","b","}">>,
    <<"{","a","}"," ","a","n","d"," ","{","b","}"," ","a","n","d"," ","{","a","}">>,
    <<BS,BS,"{","x","}">>,
    <<BS,BS,BS,"{","x","}">>,
    <<"{","x",":","a",BS,":","b","}">>,
    <<"{","x",":","a",BS,"}","b","}">>,
    <<"{","x",":","a",BS,"{","b","}">>,
    <<"{","x",":","a",BS,BS,"b","}">>,
    <<"{","x",":","h","i","}">>,
    <<"{","y","}">>,
    <<"{"," ","a"," ",":"," ","d"," ","}">>,
    <<"{","n",":","a","}"," ","{","n",":","b","}">>,
    <<"{","n",":","a","}","{","n",":","b","}","{","}">>,
    <<"{","n",":","a","}"," ","{","n",":","b","}"," ","{","n",":","c","}">>,
    <<"{","a","}","{","a","-","b","}","{","b",":","}","{",":","d","}">>,
    <<"{","a",":","d","}","-","{","b",":","}","-","{","x","}">>,
    <<"{","a",":","d","}"," ","{","}"," ",BS,"{","x",BS,"}">>,
    <<"{","U+30E6","U+3042","U+4E00",":","U+3042","}">>,
    <<"{","U+3400","}","{","}">>,
    <<"{">> \o Repeat("a", LONG_NAME_WARNING_LENGTH + 1) \o <<"}","{","-","}">>,
    <<"{">> \o Repeat("a", MAX_VARIABLE_NAME_LENGTH) \o <<"}">>,
    <<"{">> \o Repeat("a", MAX_VARIABLE_NAME_LENGTH + 1) \o <<"}">>,
    <<"a",BS,"\n","{","a","}",BS,"n">>,
    <<"{","x","}"," ","{","x",":","d","}">>,
    <<"{","a",":","d","}"," ","{","a","}"," ","{","b","}">>,
    <<"{","u","s","e","r","-","i","d",":","1","2","3","}">>,
    <<"{","@","f","i","l","e",":","t","e","s","t",".","t","x","t","}">>,
    <<"{","u","s","e","r",".","n","a","m","e","}">>,
    <<"{","f","i","l","e"," ","p","a","t","h","}">>,
    <<"{","u","n","c","l","o","s","e","d">>,
    <<"u","n","o","p","e","n","e","d","}">>,
    <<"{","{","n","e","s","t","e","d","}","}">>,
    <<"{",":","n","o","-","n","a","m","e","}">>,
    <<"{","o","u","t","e","r",":","{","i","n","n","e","r","}","}">>,
    <<"{","a","}"," ","{","b","}"," ","{","c","}"," ","{","d","}">>,
    <<"{","x",":",BS,BS,BS,":","}">>,
    <<"<","b",">","{","a","}","&","'","\"">> }

Texts == ShortTexts \cup DocTexts

a == <<"a">>

b == <<"b">>

ValueMaps ==
  { <<>>,
    (a :> <<>>),
    (a :> <<"X">>) @@ (b :> <<"Y","Y">>),
    (a :> <<"Y","Y","Y","Y">>),
    (a :> <<"{","b","}">>) @@ (b :> <<"{","a","}">>),
    (a :> <<"{","a","}">>),
    (a :> <<"{","b","}","{","c","}">>) @@ (b :> <<"{","d","}">>)
      @@ (<<"c">> :> <<"{","d","}">>),
    (a :> <<BS,"{">>) @@ (b :> <<"\"",">","<","&","'">>) }

Options ==
  [emptyIfUndefined : BOOLEAN, throwOnError : BOOLEAN,
   maxCircularCheck : {2, 3, DEFAULT_MAX_CIRCULAR_CHECK}]

\* the options analyzePrompt is called with
AnalyzeOptions ==
  [emptyIfUndefined : {TRUE}, throwOnError : BOOLEAN,
   maxCircularCheck : {2, DEFAULT_MAX_CIRCULAR_CHECK}]

DEFAULT_OPTIONS ==
  [emptyIfUndefined |-> TRUE, throwOnError |-> FALSE,
   maxCircularCheck |-> DEFAULT_MAX_CIRCULAR_CHECK]

Init ==
  /\ prompt \in Texts
  /\ \/ /\ pc = "start"
        /\ variableValues \in ValueMaps
        /\ opts \in Options
     \/ /\ pc = "analyzePrompt"
        /\ variableValues \in ValueMaps
        /\ opts \in AnalyzeOptions
     \/ /\ pc = "getVariableStats"
        /\ variableValues \in ValueMaps
        /\ opts = DEFAULT_OPTIONS
     \/ /\ pc = "generatePreviewHtml"
        /\ variableValues \in ValueMaps
        /\ opts = DEFAULT_OPTIONS
     \/ /\ pc \in {"validateEscapeSequences", "validatePrompt"}
        /\ variableValues = <<>>
        /\ opts = DEFAULT_OPTIONS
  /\ returnValue = <<>>
  /\ locals = noLocals
  /\ stack = <<>>
  /\ patternLastIndex = 0
  /\ calls = <<>>
  /\ parseResult = noParseResult
  /\ errors = <<>>
  /\ warnings = <<>>
  /\ usedVariables = <<>>
  /\ replacedText = <<>>
  /\ sortedVariables = <<>>
  /\ thrown = [template |-> "NONE", args |-> <<>>]
  /\ result = noResult

Next ==
  \/ Parse \/ CheckCircular \/ ReplaceOne \/ Return \/ Catch
  \/ ValidateEscapeSequences
  \/ GetVariableStats
  \/ PreviewParse \/ PreviewOne \/ PreviewReturn
  \/ AnalyzeCall \/ AnalyzeReturn
  \/ ValidatePrompt

Spec == Init /\ [][Next]_vars

(***************************************************************************)
(* Successive calls of replaceVariables: when a call has returned, the     *)
(* caller makes the next one, with arguments of its choice                 *)
(***************************************************************************)
MaxCalls == 2

CallTexts ==
  { <<"a">>,
    <<"{","}">>,
    <<"{","a","}">>,
    <<"{","a","}"," ","a","n","d"," ","{","b","}">>,
    <<BS,"{","a",BS,"}","{","a",":","d","}">>,
    <<"{","n",":","a","}"," ","{","n",":","b","}">> }

CallMaps ==
  { <<>>,
    (a :> <<"X">>) @@ (b :> <<"Y","Y">>),
    (a :> <<"{","b","}">>) @@ (b :> <<"{","a","}">>) }

CallOptions ==
  [emptyIfUndefined : {TRUE}, throwOnError : BOOLEAN,
   maxCircularCheck : {DEFAULT_MAX_CIRCULAR_CHECK}]

InitCalls ==
  /\ prompt \in CallTexts
  /\ variableValues \in CallMaps
  /\ opts \in CallOptions
  /\ pc = "start"
  /\ returnValue = <<>>
  /\ locals = noLocals
  /\ stack = <<>>
  /\ patternLastIndex = 0
  /\ calls = <<>>
  /\ parseResult = noParseResult
  /\ errors = <<>>
  /\ warnings = <<>>
  /\ usedVariables = <<>>
  /\ replacedText = <<>>
  /\ sortedVariables = <<>>
  /\ thrown = [template |-> "NONE", args |-> <<>>]
  /\ result = noResult

\* the call that has returned, as the caller saw it
returnedCall ==
  [prompt |-> prompt, variableValues |-> variableValues, opts |-> opts,
   result |-> result]

\* the caller calls replaceVariables again: the arguments are new, the
\* locals of the function (errors, warnings, usedVariables, ...) are those
\* of a new activation, the statics of the classes are what they were
NextCall ==
  /\ pc = "returned"
  /\ stack = <<>>
  /\ Len(calls) < MaxCalls - 1
  /\ calls' = Append(calls, returnedCall)
  /\ prompt' \in CallTexts
  /\ variableValues' \in CallMaps
  /\ opts' \in CallOptions
  /\ pc' = "start"
  /\ parseResult' = noParseResult
  /\ errors' = <<>>
  /\ warnings' = <<>>
  /\ usedVariables' = <<>>
  /\ replacedText' = <<>>
  /\ sortedVariables' = <<>>
  /\ thrown' = [template |-> "NONE", args |-> <<>>]
  /\ UNCHANGED <<patternLastIndex, returnValue, locals, stack, result>>

NextCalls ==
  \/ Parse \/ CheckCircular \/ ReplaceOne \/ Return \/ Catch
  \/ NextCall

SpecCalls == InitCalls /\ [][NextCalls]_vars

(***************************************************************************)
(* What the properties below talk about                                    *)
(***************************************************************************)
\* parseVariables has returned into replaceVariables and its result is
\* still as returned (the sort of line 72 has not run)
ParseReturned ==
  \/ pc = "circular"
  \/ pc = "catch" /\ thrown.template = "PARSE_ERROR"

\* replaceVariables has returned through the catch block
Failed == pc = "returned" /\ thrown.template # "NONE"

\* replaceVariables has returned from the try block
Succeeded == pc = "returned" /\ thrown.template = "NONE"

\* the positions (0-based) where a token starts: an opening brace not
\* preceded by a backslash whose next brace is a closing one
TokenStarts(text) ==
  {i \in 0..(Len(text) - 1) :
     /\ text[i + 1] = "{"
     /\ (i = 0 \/ text[i] # BS)
     /\ \E j \in (i + 2)..Len(text) :
          /\ text[j] = "}"
          /\ \A k \in (i + 2)..(j - 1) : text[k] \notin {"{", "}"}}

\* the closing brace (0-based) of the token that starts at i
TokenEnd(text, i) ==
  (CHOOSE j \in (i + 2)..Len(text) :
     /\ text[j] = "}"
     /\ \A k \in (i + 2)..(j - 1) : text[k] \notin {"{", "}"}) - 1

\* the value the contract gives an occurrence v
ContractValue(v) ==
  CASE v.name \in DOMAIN variableValues -> variableValues[v.name]
    [] v.name \notin DOMAIN variableValues /\ v.defaultValue # undefined ->
         v.defaultValue
    [] OTHER -> IF opts.emptyIfUndefined THEN <<>> ELSE v.rawText

\* text with the span of each of vs[i..] (in source order, from 0-based
\* position `from` on) replaced by its contract value, the rest kept
RECURSIVE SpansReplaced(_, _, _, _)
SpansReplaced(text, vs, i, from) ==
  IF i > Len(vs) THEN SubSeq(text, from + 1, Len(text))
  ELSE SubSeq(text, from + 1, vs[i].startIndex) \o ContractValue(vs[i]) \o
       SpansReplaced(text, vs, i + 1, vs[i].endIndex + 1)

Substituted(text) == SpansReplaced(text, parseVariables(text).variables, 1, 0)

C2_SplicingKeepsOffsets ==
  (pc = "loop" /\ sortedVariables = <<>>) => replacedText = Substituted(prompt)

\* `{a} and {b}` with a = X, b = YY has become `X and YY`
C2_Witness ==
  /\ pc = "loop"
  /\ sortedVariables = <<>>
  /\ prompt = <<"{","a","}"," ","a","n","d"," ","{","b","}">>
  /\ variableValues = (a :> <<"X">>) @@ (b :> <<"Y","Y">>)
  /\ Len(parseResult.variables) = 2
  /\ replacedText = <<"X"," ","a","n","d"," ","Y","Y">>

(***************************************************************************)
(* C3                                                                      *)
(***************************************************************************)
\* C3: every Variable returned by parseVariables(text) has
\* endIndex >= startIndex and rawText = text[startIndex..endIndex], and
\* the variables are in source order with disjoint spans.
C3_SpansAreExact ==
  ParseReturned =>
    LET vs == parseResult.variables IN
    /\ \A i \in 1..Len(vs) :
         /\ vs[i].startIndex >= 0
         /\ vs[i].endIndex >= vs[i].startIndex
         /\ vs[i].endIndex < Len(prompt)
         /\ vs[i].rawText = SubSeq(prompt, vs[i].startIndex + 1, vs[i].endIndex + 1)
    /\ \A i \in 1..(Len(vs) - 1) : vs[i].endIndex < vs[i + 1].startIndex

\* three variables have been parsed from `{a} and {b} and {a}`
C3_Witness ==
  /\ ParseReturned
  /\ prompt = <<"{","a","}"," ","a","n","d"," ","{","b","}"," ","a","n","d"," ","{","a","}">>
  /\ Len(parseResult.variables) = 3
  /\ parseResult.variables[3].startIndex = 16

(***************************************************************************)
(* C4                                                                      *)
(***************************************************************************)
AllowedNameChars ==
  AsciiLetters \cup AsciiDigits \cup {"_"} \cup Hiragana \cup Katakana
    \cup CJKUnified \cup CJKExtensionA

\* the candidate name of a token's content: the content up to its first
\* colon (all of it when it has none), trimmed
CandidateName(content) ==
  LET colons == {i \in 1..Len(content) : content[i] = ":"}
      upTo == IF colons = {} THEN Len(content)
              ELSE (CHOOSE i \in colons : \A j \in colons : i <= j) - 1
      lead == {i \in 1..upTo : content[i] \notin WhiteSpace}
  IN  IF lead = {} THEN <<>>
      ELSE SubSeq(content,
                  CHOOSE i \in lead : \A j \in lead : i <= j,
                  CHOOSE i \in lead : \A j \in lead : i >= j)

IsValidName(name) ==
  /\ Len(name) >= 1
  /\ Len(name) <= 100
  /\ \A i \in 1..Len(name) : name[i] \in AllowedNameChars

Literal == <<BS,"{","l","i","t","e","r","a","l",BS,"}">>

\* C5: no variable and no error of parseVariables starts at an opening
\* brace that follows a backslash; `\{literal\}` parses to nothing, and
\* replaceVariables returns `{literal}` for it.
C5_EscapedBraceIsLiteral ==
  /\ ParseReturned =>
       /\ \A i \in 1..Len(parseResult.variables) :
            LET s == parseResult.variables[i].startIndex
            IN  s = 0 \/ prompt[s] # BS
       /\ \A i \in 1..Len(parseResult.errors) :
            LET s == parseResult.errors[i].position.start
            IN  s = 0 \/ prompt[s] # BS
       /\ prompt = Literal =>
            parseResult.variables = <<>> /\ parseResult.errors = <<>>
  /\ (pc = "returned" /\ prompt = Literal) =>
       result.replacedText = <<"{","l","i","t","e","r","a","l","}">>

C5_Witness ==
  /\ pc = "returned"
  /\ prompt = Literal
  /\ opts.throwOnError
  /\ variableValues = (a :> <<"X">>) @@ (b :> <<"Y","Y">>)
  /\ result.replacedText = <<"{","l","i","t","e","r","a","l","}">>

(***************************************************************************)
(* C6                                                                      *)
(***************************************************************************)
TwoBackslashesX == <<BS,BS,"{","x","}">>

\* C6 as stated: an opening brace after an even number (two or more) of
\* backslashes begins a placeholder, so `\\{x}` yields the variable x.
C6_EvenBackslashesUnescape ==
  (ParseReturned /\ prompt = TwoBackslashesX) =>
    \E i \in 1..Len(parseResult.variables) :
      parseResult.variables[i].name = <<"x">>

\* C6 as amended: an opening brace that directly follows two or more
\* backslashes starts no token either, whatever their parity: no variable
\* and no error starts there, and `\\{x}` parses to nothing.
C6_AnyBackslashEscapes ==
  ParseReturned =>
    /\ \A t \in 2..(Len(prompt) - 1) :
         (prompt[t + 1] = "{" /\ prompt[t] = BS /\ prompt[t - 1] = BS) =>
           /\ \A i \in 1..Len(parseResult.variables) :
                parseResult.variables[i].startIndex # t
           /\ \A i \in 1..Len(parseResult.errors) :
                parseResult.errors[i].position.start # t
    /\ prompt = TwoBackslashesX =>
         parseResult.variables = <<>> /\ parseResult.errors = <<>>

C6_Witness ==
  /\ ParseReturned
  /\ prompt = TwoBackslashesX
  /\ parseResult.variables = <<>>

(***************************************************************************)
(* C7                                                                      *)
(***************************************************************************)
\* C7: the four escapes are resolved inside a default value: `{x:a\:b}`
\* gives x the default `a:b`, `{x:a\\b}` the default `a\b`, and an escaped
\* brace belongs to the default: `{x:a\}b}` is one variable x with default
\* `a}b` whose rawText is the whole text, `{x:a\{b}` one with default `a{b`.
C7_DefaultEscapes ==
  ParseReturned =>
    /\ prompt = <<"{","x",":","a",BS,":","b","}">> =>
         /\ Len(parseResult.variables) = 1
         /\ parseResult.variables[1].name = <<"x">>
         /\ parseResult.variables[1].defaultValue = <<"a",":","b">>
    /\ prompt = <<"{","x",":","a",BS,BS,"b","}">> =>
         /\ Len(parseResult.variables) = 1
         /\ parseResult.variables[1].defaultValue = <<"a",BS,"b">>
    /\ prompt = <<"{","x",":","a",BS,"}","b","}">> =>
         /\ Len(parseResult.variables) = 1
         /\ parseResult.variables[1].name = <<"x">>
         /\ parseResult.variables[1].defaultValue = <<"a","}","b">>
         /\ parseResult.variables[1].rawText = prompt
    /\ prompt = <<"{","x",":","a",BS,"{","b","}">> =>
         /\ Len(parseResult.variables) = 1
         /\ parseResult.variables[1].defaultValue = <<"a","{","b">>

(***************************************************************************)
(* C8                                                                      *)
(***************************************************************************)
IsSynthesized(e) ==
  e.type = "MALFORMED_VARIABLE" /\ e.message.template = "REPLACE_ERROR"

C9_ThrowOnErrorRaises ==
  pc = "returned" =>
    ~( /\ opts.throwOnError
       /\ \/ parseVariables(prompt).errors # <<>>
          \/ checkCircularReferences(parseVariables(prompt).variables,
                                     variableValues, opts.maxCircularCheck) # <<>> )

(***************************************************************************)
(* C10                                                                     *)
(***************************************************************************)
Contains(seq, x) == \E i \in 1..Len(seq) : seq[i] = x

\* C10: every returned result holds every error and every warning of
\* parseVariables(prompt).
C10_ParseDiagnosticsKept ==
  pc = "returned" =>
    LET r == parseVariables(prompt) IN
    /\ \A i \in 1..Len(r.errors) : Contains(result.errors, r.errors[i])
    /\ \A i \in 1..Len(r.warnings) : Contains(result.warnings, r.warnings[i])

(***************************************************************************)
(* C11                                                                     *)
(***************************************************************************)
\* the names of the placeholders found in a value
RefsIn(value) ==
  {parseVariables(value).variables[i].name :
     i \in 1..Len(parseVariables(value).variables)}

\* following the placeholders found in value-map values from `name`, with
\* the names in onPath already on the path, leads back to a name on the
\* path within `steps` steps
RECURSIVE LeadsBack(_, _, _)
LeadsBack(name, onPath, steps) ==
  /\ steps > 0
  /\ \/ name \in onPath
     \/ /\ name \in DOMAIN variableValues
        /\ \E r \in RefsIn(variableValues[name]) :
             LeadsBack(r, onPath \cup {name}, steps - 1)

HasCircularError(errs, name) ==
  \E i \in 1..Len(errs) :
    errs[i].type = "CIRCULAR_REFERENCE" /\ errs[i].variableName = name

\* C11: whenever the value of a variable of the template leads, through
\* the placeholders found in value-map values, back to a name already on
\* the path within maxCircularCheck steps, the returned errors hold a
\* CIRCULAR_REFERENCE error for it (the circular check having run); so for
\* `{a}` with a: "{b}", b: "{a}".
C11_CircularReported ==
  (pc = "returned" /\ ~(opts.throwOnError /\ parseResult.errors # <<>>)) =>
    \A i \in 1..Len(parseResult.variables) :
      LeadsBack(parseResult.variables[i].name, {}, opts.maxCircularCheck) =>
        HasCircularError(result.errors, parseResult.variables[i].name)


(***************************************************************************)
(* C12                                                                     *)
(***************************************************************************)
\* path is a chain of references that starts at `name` and ends with the
\* first name to repeat: each name is referenced in the value of the one
\* before it, and only the last one has been seen before
IsChainPath(path, name) ==
  /\ Len(path) >= 2
  /\ path[1] = name
  /\ \A i \in 1..(Len(path) - 1) :
       /\ path[i] \in DOMAIN variableValues
       /\ path[i + 1] \in RefsIn(variableValues[path[i]])
       /\ \A j \in 1..(i - 1) : path[j] # path[i]
  /\ \E i \in 1..(Len(path) - 1) : path[i] = path[Len(path)]

\* C12: the path joined into the message of every recorded
\* CIRCULAR_REFERENCE error lists the names of the detected chain in
\* visiting order, from the checked variable up to and including the
\* repeated name (`a -> b -> a` for `{a} {b}` with a: "{b}", b: "{a}").
C12_PathListsChain ==
  \A i \in 1..Len(errors) :
    errors[i].type = "CIRCULAR_REFERENCE" =>
      IsChainPath(errors[i].message.args, errors[i].variableName)


(***************************************************************************)
(* C13                                                                     *)
(***************************************************************************)
\* the circular check has run in this call of replaceVariables
CircularChecked == pc = "loop" \/ (pc \in {"catch", "returned"} /\ thrown.template # "PARSE_ERROR")

\* a chain of k names that the search can walk from `name`: every name is
\* a placeholder of the template, each is referenced in the value of the
\* one before it, and the last is the first to repeat
ClosesWithin(name, k) ==
  \E path \in [1..k -> namesOf(parseResult.variables)] :
    IsChainPath(path, name)

\* C13: the search for every checked variable nests at most
\* maxCircularCheck recursive calls below the call checkCircularReferences
\* makes, and a CIRCULAR_REFERENCE error is recorded for a variable only if
\* a chain from it closes within maxCircularCheck names: a cycle that needs
\* more is not reported and leaves no error.
C13_DepthBounded ==
  CircularChecked =>
    \A i \in 1..Len(parseResult.variables) :
      /\ nestedCalls(parseResult.variables[i].name, variableValues,
                     namesOf(parseResult.variables), {},
                     opts.maxCircularCheck) - 1 <= opts.maxCircularCheck
      /\ HasCircularError(errors, parseResult.variables[i].name) =>
           \E k \in 2..opts.maxCircularCheck :
             ClosesWithin(parseResult.variables[i].name, k)

\* `{a} and {b}` with a: "{b}", b: "{a}" and maxCircularCheck = 2: the
\* search for a used both its recursive calls, the cycle a, b, a needs
\* three names, and no error was recorded
C13_Witness ==
  /\ pc = "returned"
  /\ opts.maxCircularCheck = 2
  /\ prompt = <<"{","a","}"," ","a","n","d"," ","{","b","}">>
  /\ variableValues = (a :> <<"{","b","}">>) @@ (b :> <<"{","a","}">>)
  /\ nestedCalls(a, variableValues, {a, b}, {}, 2) - 1 = 2
  /\ ClosesWithin(a, 3)
  /\ result.errors = <<>>


(***************************************************************************)
(* C14                                                                     *)
(***************************************************************************)
IsUndefinedWarning(w, name) ==
  /\ w.type = "UNDEFINED_VARIABLE"
  /\ w.message.template = "UNDEFINED_VARIABLE"
  /\ w.variableName = name

\* C14: an iteration of the replacement loop appends one
\* UNDEFINED_VARIABLE warning for the occurrence it visits if and only if
\* the value map has no entry for its name and the occurrence has no
\* default value; an explicit empty default (`{x:}`) is a default, so that
\* occurrence gets no warning.
C14_UndefinedWarningIff ==
  [][ (pc = "loop" /\ sortedVariables # <<>>) =>
        IF /\ Head(sortedVariables).name \notin DOMAIN variableValues
           /\ Head(sortedVariables).defaultValue = undefined
        THEN /\ Len(warnings') = Len(warnings) + 1
             /\ SubSeq(warnings', 1, Len(warnings)) = warnings
             /\ IsUndefinedWarning(warnings'[Len(warnings')],
                                   Head(sortedVariables).name)
        ELSE warnings' = warnings ]_vars


(***************************************************************************)
(* C15                                                                     *)
(***************************************************************************)
\* the conflicting-default warnings of a parse result for `name`
ConflictWarnings(r, name) ==
  {i \in 1..Len(r.warnings) :
     /\ r.warnings[i].message.template = "DIFFERENT_DEFAULTS"
     /\ r.warnings[i].variableName = name}

\* the occurrences of `name` do not all carry the same defaultValue
DefaultsConflict(variables, name) ==
  \E i, j \in 1..Len(variables) :
    /\ variables[i].name = name
    /\ variables[j].name = name
    /\ variables[i].defaultValue # variables[j].defaultValue

\* C15: the result of parseVariables holds exactly one conflicting-default
\* warning for each name whose occurrences do not all carry the same
\* defaultValue, however many occurrences and defaults it has, and none for
\* a name whose occurrences all agree.
C15_OneWarningPerName ==
  ParseReturned =>
    \A name \in namesOf(parseResult.variables) :
      Cardinality(ConflictWarnings(parseResult, name)) =
        IF DefaultsConflict(parseResult.variables, name) THEN 1 ELSE 0


(***************************************************************************)
(* C16                                                                     *)
(***************************************************************************)
\* every variable parsed from the prompt has a value or a default
AllResolvable ==
  \A i \in 1..Len(parseResult.variables) :
    \/ parseResult.variables[i].name \in DOMAIN variableValues
    \/ parseResult.variables[i].defaultValue # undefined

HasBrace(text) == \E i \in 1..Len(text) : text[i] \in {"{", "}"}

\* the placeholders the parser finds in the returned text that carry a name
\* parsed from the prompt
Dangling ==
  {i \in 1..Len(parseVariables(result.replacedText).variables) :
     parseVariables(result.replacedText).variables[i].name
       \in namesOf(parseResult.variables)}

\* C16: if every variable parsed from the prompt has its name in the value
\* map or has a default, the returned replacedText holds no unescaped
\* `{name}` or `{name:default}` for any name parsed from the prompt,
\* whatever the values contain.
C16_NoDanglingPlaceholders ==
  (Succeeded /\ AllResolvable) => Dangling = {}

\* a position (0-based) of the prompt outside every parsed placeholder
OutsideSpans(i) ==
  \A k \in 1..Len(parseResult.variables) :
    i < parseResult.variables[k].startIndex \/ i > parseResult.variables[k].endIndex

\* neither the values substituted nor the text around the placeholders
\* hold a brace
PlainValuesAndText ==
  /\ \A k \in 1..Len(parseResult.variables) :
       ~HasBrace(ContractValue(parseResult.variables[k]))
  /\ \A i \in 0..(Len(prompt) - 1) :
       OutsideSpans(i) => prompt[i + 1] \notin {"{", "}"}

\* C16 (amended): if every variable parsed from the prompt has its name in
\* the value map or has a default, and neither the substituted values nor
\* the text outside the parsed placeholders hold `{` or `}`, the returned
\* replacedText holds no brace at all, so no placeholder of any name.
C16_NoBraceLeftForPlainValues ==
  (pc = "returned" /\ AllResolvable /\ PlainValuesAndText) =>
    /\ ~HasBrace(result.replacedText)
    /\ Dangling = {}

\* `{a} and {b}` with a: "X", b: "YY": both placeholders are gone
C16_Witness ==
  /\ Succeeded
  /\ prompt = <<"{","a","}"," ","a","n","d"," ","{","b","}">>
  /\ variableValues = (a :> <<"X">>) @@ (b :> <<"Y","Y">>)
  /\ AllResolvable /\ PlainValuesAndText
  /\ result.replacedText = <<"X"," ","a","n","d"," ","Y","Y">>


(***************************************************************************)
(* C17                                                                     *)
(***************************************************************************)
\* the backslash-plus-character sequences of a text, scanned left to right
\* without overlap from 0-based position `from`: the positions of their
\* backslashes
RECURSIVE EscapePairs(_, _)
EscapePairs(text, from) ==
  LET hits == {i \in from..(Len(text) - 2) : text[i + 1] = BS} IN
  IF hits = {} THEN <<>>
  ELSE LET i == CHOOSE k \in hits : \A m \in hits : k <= m
       IN  <<i>> \o EscapePairs(text, i + 2)

\* the pairs whose second character is none of `{`, `}`, `:`, `\`
RECURSIVE InvalidPairs(_, _)
InvalidPairs(text, pairs) ==
  IF pairs = <<>> THEN <<>>
  ELSE (IF text[Head(pairs) + 2] \in {"{", "}", ":", BS} THEN <<>>
        ELSE <<Head(pairs)>>) \o InvalidPairs(text, Tail(pairs))

\* C17: validateEscapeSequences returns one INVALID_ESCAPE error, positioned
\* on the two characters, for exactly the backslash-plus-character sequences
\* of the text (left to right, without overlap) whose second character is
\* none of `{`, `}`, `:`, `\` -- any other character -- and none for the
\* others, inside a placeholder or not.
C17_InvalidEscapesReported ==
  pc = "validated" =>
    LET invalid == InvalidPairs(prompt, EscapePairs(prompt, 0)) IN
    /\ Len(returnValue) = Len(invalid)
    /\ \A i \in 1..Len(invalid) :
         /\ returnValue[i].type = "INVALID_ESCAPE"
         /\ returnValue[i].position =
              [start |-> invalid[i], end |-> invalid[i] + 1]
         /\ returnValue[i].rawText =
              SubSeq(prompt, invalid[i] + 1, invalid[i] + 2)


(***************************************************************************)
(* C18                                                                     *)
(***************************************************************************)
\* the distinct names of the first n variables, each once, in the order of
\* their first occurrence
RECURSIVE FirstEncounterOrder(_, _)
FirstEncounterOrder(variables, n) ==
  IF n = 0 THEN <<>>
  ELSE IF \E j \in 1..(n - 1) : variables[j].name = variables[n].name
  THEN FirstEncounterOrder(variables, n - 1)
  ELSE Append(FirstEncounterOrder(variables, n - 1), variables[n].name)

\* C18: on a successful replace, usedVariables holds the distinct names of
\* the variables parsed from the text, each once, a name whose first
\* occurrence in the text is earlier before a name whose first occurrence
\* is later.
C18_UsedInTextOrder ==
  Succeeded =>
    result.usedVariables =
      FirstEncounterOrder(parseVariables(prompt).variables,
                          Len(parseVariables(prompt).variables))


(***************************************************************************)
(* C19                                                                     *)
(***************************************************************************)
\* the distinct names that carry a default value in some occurrence
NamesWithDefault(variables) ==
  {variables[i].name : i \in {j \in 1..Len(variables) :
                                variables[j].defaultValue # undefined}}

\* C19: getVariableStats returns the number of parsed occurrences, the
\* number of distinct names, the number of distinct names present in the
\* value map, the difference of the last two, and the number of distinct
\* names that carry a default value in the text, whichever occurrence
\* carries it (`{x} {x:d}` counts x).
C19_StatsCounts ==
  pc = "counted" =>
    LET vs == parseVariables(prompt).variables IN
    /\ returnValue.totalVariables = Len(vs)
    /\ returnValue.uniqueVariables = Cardinality(namesOf(vs))
    /\ returnValue.definedVariables =
         Cardinality(namesOf(vs) \cap DOMAIN variableValues)
    /\ returnValue.undefinedVariables =
         returnValue.uniqueVariables - returnValue.definedVariables
    /\ returnValue.variablesWithDefaults = Cardinality(NamesWithDefault(vs))


(***************************************************************************)
(* C20                                                                     *)
(***************************************************************************)
\* what the preview is to display for an occurrence: the value-map value
\* when the map has the name, else the default when there is one, else the
\* raw placeholder text
PreviewDisplay(v) ==
  IF v.name \in DOMAIN variableValues THEN variableValues[v.name]
  ELSE IF v.defaultValue # undefined THEN v.defaultValue
  ELSE v.rawText

EndsWith(text, suffix) ==
  /\ Len(suffix) <= Len(text)
  /\ SubSeq(text, Len(text) - Len(suffix) + 1, Len(text)) = suffix

\* C20: the span an iteration of generatePreviewHtml appends displays the
\* value-map value when the map has the variable's name (also the empty
\* string), else the default when the variable has one, else the raw
\* placeholder text, and is marked variable-defined if and only if the map
\* has the name or the variable has a default.
C20_PreviewShowsResolvedValue ==
  (pc = "preview" /\ locals.index > 0) =>
    /\ EndsWith(locals.html,
                TITLE_END \o
                escapeHtml(PreviewDisplay(parseResult.variables[locals.index])) \o
                SPAN_CLOSE)
    /\ locals.cssClass = "variable-defined" <=>
         \/ parseResult.variables[locals.index].name \in DOMAIN variableValues
         \/ parseResult.variables[locals.index].defaultValue # undefined


(***************************************************************************)
(* C21                                                                     *)
(***************************************************************************)
\* C21: analyzePrompt returns isValid = true if and only if
\* parseVariables(prompt) has no errors, the result of replaceVariables has
\* no errors and validateEscapeSequences(prompt) has no errors; warnings
\* play no part in it.
C21_IsValidIffNoErrors ==
  pc = "analyzed" =>
    /\ returnValue.replacementResult = result
    /\ returnValue.isValid <=>
         /\ parseVariables(prompt).errors = <<>>
         /\ result.errors = <<>>
         /\ validateEscapeSequences(prompt) = <<>>

\* an analysis that is not valid for an invalid escape alone: the parse and
\* the replacement are free of errors
C21_Witness ==
  /\ pc = "analyzed"
  /\ parseVariables(prompt).errors = <<>>
  /\ result.errors = <<>>
  /\ Len(returnValue.escapeErrors) = 1
  /\ returnValue.escapeErrors[1].type = "INVALID_ESCAPE"
  /\ ~returnValue.isValid


(***************************************************************************)
(* C22                                                                     *)
(***************************************************************************)
\* the distinct names of the text that have no default value
NamesWithoutDefault(variables) ==
  namesOf(variables) \ NamesWithDefault(variables)

Suggested(label) ==
  {i \in 1..Len(returnValue.suggestions) :
     returnValue.suggestions[i].label = label}

\* C22: validatePrompt adds the 'N variables lack default values'
\* suggestion exactly when some distinct name of the text has no default
\* value, with N the number of distinct names without a default, and the
\* 'no variables found' suggestion exactly when the parse yields no
\* variable.
C22_SuggestionsMatchDefaults ==
  pc = "promptValidated" =>
    LET vs == parseVariables(prompt).variables IN
    /\ Cardinality(Suggested("SET_DEFAULTS")) =
         IF NamesWithoutDefault(vs) # {} THEN 1 ELSE 0
    /\ \A i \in Suggested("SET_DEFAULTS") :
         returnValue.suggestions[i].count = Cardinality(NamesWithoutDefault(vs))
    /\ Cardinality(Suggested("ADD_VARIABLES")) = IF Len(vs) = 0 THEN 1 ELSE 0


(***************************************************************************)
(* C23                                                                     *)
(***************************************************************************)
SameArguments(call) ==
  /\ call.prompt = prompt
  /\ call.variableValues = variableValues
  /\ call.opts = opts

PlainNameChars ==
  AsciiLetters \cup AsciiDigits \cup {"_", "-"} \cup Hiragana \cup Katakana
    \cup CJKUnified \cup CJKExtensionA

SpecialWarnings(r, name) ==
  {i \in 1..Len(r.warnings) :
     /\ r.warnings[i].type = "SPECIAL_CHARACTERS_IN_NAME"
     /\ r.warnings[i].variableName = name}

\* C24: for each variable of the parse result there is a
\* SPECIAL_CHARACTERS_IN_NAME warning if and only if its name holds a
\* character outside ASCII letters, digits, `_`, `-`, Hiragana, Katakana
\* and the two CJK ranges (U+4E00-U+9FAF, U+3400-U+4DBF).
C24_SpecialCharacterWarning ==
  ParseReturned =>
    \A i \in 1..Len(parseResult.variables) :
      SpecialWarnings(parseResult, parseResult.variables[i].name) # {} <=>
        \E k \in 1..Len(parseResult.variables[i].name) :
          parseResult.variables[i].name[k] \notin PlainNameChars


(***************************************************************************)
(* C25                                                                     *)
(***************************************************************************)
\* C25: names are unrestricted: every token whose content up to an
\* optional colon is not blank yields one variable with exactly that text
\* as its name and no error, whatever characters the name holds (`-`, `.`,
\* `/`, `@`, spaces), as for `{user-id:123}`, `{@file:test.txt}`,
\* `{user.name}` and `{file path}`.
C25_AnyNameIsAccepted ==
  ParseReturned =>
    \A t \in TokenStarts(prompt) :
      CandidateName(SubSeq(prompt, t + 2, TokenEnd(prompt, t))) # <<>> =>
        /\ \E i \in 1..Len(parseResult.variables) :
             /\ parseResult.variables[i].startIndex = t
             /\ parseResult.variables[i].name =
                  CandidateName(SubSeq(prompt, t + 2, TokenEnd(prompt, t)))
        /\ \A i \in 1..Len(parseResult.errors) :
             parseResult.errors[i].position.start # t


(***************************************************************************)
(* C26                                                                     *)
(***************************************************************************)
\* position i (0-based) lies inside a token of the text
InToken(text, i) ==
  \E t \in TokenStarts(text) : t <= i /\ i <= TokenEnd(text, t)

\* an unescaped brace that belongs to no token: an unclosed or unopened
\* brace, or the outer braces of a nested form
StrayBraces(text) ==
  {i \in 0..(Len(text) - 1) :
     /\ text[i + 1] \in {"{", "}"}
     /\ (i = 0 \/ text[i] # BS)
     /\ ~InToken(text, i)}

\* the span that starts at `start` lies inside an opening brace that is
\* not closed before it
Enclosed(text, start) ==
  \E i \in StrayBraces(text) :
    /\ i < start
    /\ text[i + 1] = "{"
    /\ \A k \in (i + 1)..(start - 1) : text[k + 1] \notin {"{", "}"}

\* C26: malformed or nested brace syntax is rejected: a text with a stray
\* unescaped brace (`{unclosed`, `unopened}`, `{{nested}}`,
\* `{outer:{inner}}`) or with a token without a name (`{:no-name}`) has at
\* least one error in the result of parseVariables and of validatePrompt,
\* and the inner span of a nested form is not among the variables.
C26_MalformedSyntaxRejected ==
  /\ ParseReturned =>
       /\ StrayBraces(prompt) # {} => parseResult.errors # <<>>
       /\ (\E t \in TokenStarts(prompt) :
             CandidateName(SubSeq(prompt, t + 2, TokenEnd(prompt, t))) = <<>>)
            => parseResult.errors # <<>>
       /\ \A i \in 1..Len(parseResult.variables) :
            ~Enclosed(prompt, parseResult.variables[i].startIndex)
  /\ pc = "promptValidated" =>
       (StrayBraces(prompt) # {} => returnValue.errors # <<>>)


(***************************************************************************)
(* C27                                                                     *)
(***************************************************************************)
\* LeadsBack with the references restricted to the names in `among`: a
\* placeholder found in a value is followed only when its name is in `among`
RECURSIVE LeadsBackAmong(_, _, _, _)
LeadsBackAmong(name, onPath, steps, among) ==
  /\ steps > 0
  /\ \/ name \in onPath
     \/ /\ name \in DOMAIN variableValues
        /\ \E r \in RefsIn(variableValues[name]) \cap among :
             LeadsBackAmong(r, onPath \cup {name}, steps - 1, among)

C27_WitnessBoth ==
  /\ pc = "returned"
  /\ prompt = <<"{","a","}"," ","a","n","d"," ","{","b","}">>
  /\ variableValues = (a :> <<"{","b","}">>) @@ (b :> <<"{","a","}">>)
  /\ opts.maxCircularCheck = DEFAULT_MAX_CIRCULAR_CHECK
  /\ HasCircularError(result.errors, a)
  /\ HasCircularError(result.errors, b)

(***************************************************************************)
(* C28                                                                     *)
(***************************************************************************)
\* the acyclic diamond: a refers to b and c, and both refer to d
Diamond ==
  (a :> <<"{","b","}","{","c","}">>) @@ (b :> <<"{","d","}">>)
    @@ (<<"c">> :> <<"{","d","}">>)

\* C28: a CIRCULAR_REFERENCE error is recorded for a checked variable only
\* if some chain of references that starts at it revisits a name already
\* on that same chain; names visited for another top-level variable or in
\* a sibling branch do not count, so the acyclic diamond (`{a} {b} {c} {d}`
\* with a: "{b}{c}", b: "{d}", c: "{d}") gives no such error.
C28_NoFalseCircular ==
  CircularChecked =>
    /\ \A i \in 1..Len(parseResult.variables) :
         HasCircularError(errors, parseResult.variables[i].name) =>
           \E k \in 2..(Cardinality(DOMAIN variableValues) + 1) :
             \E path \in [1..k -> DOMAIN variableValues] :
               IsChainPath(path, parseResult.variables[i].name)
    /\ variableValues = Diamond =>
         \A i \in 1..Len(errors) : errors[i].type # "CIRCULAR_REFERENCE"

\* the diamond was checked: d was reached from a through b and through c,
\* and from b and c themselves, and nothing was recorded
C28_Witness ==
  /\ pc = "returned"
  /\ prompt = <<"{","a","}"," ","{","b","}"," ","{","c","}"," ","{","d","}">>
  /\ variableValues = Diamond
  /\ opts.maxCircularCheck = DEFAULT_MAX_CIRCULAR_CHECK
  /\ extractVariableReferences(variableValues[a], namesOf(parseResult.variables))
       = <<b, <<"c">> >>
  /\ extractVariableReferences(variableValues[b], namesOf(parseResult.variables))
       = << <<"d">> >>
  /\ extractVariableReferences(variableValues[<<"c">>], namesOf(parseResult.variables))
       = << <<"d">> >>
  /\ result.errors = <<>>

(***************************************************************************)
(* C29                                                                     *)
(***************************************************************************)
\* text with each stretch outside the spans of vs[i..] unescaped on its own
\* and the span of each of vs[i..] replaced by its contract value, kept
\* character for character
RECURSIVE LiteralUnescaped(_, _, _, _)
LiteralUnescaped(text, vs, i, from) ==
  IF i > Len(vs) THEN unescapeText(SubSeq(text, from + 1, Len(text)))
  ELSE unescapeText(SubSeq(text, from + 1, vs[i].startIndex)) \o
       ContractValue(vs[i]) \o
       LiteralUnescaped(text, vs, i + 1, vs[i].endIndex + 1)

\* the prompt is one placeholder with a default and nothing else
SinglePlaceholderWithDefault ==
  /\ Len(parseVariables(prompt).variables) = 1
  /\ parseVariables(prompt).variables[1].startIndex = 0
  /\ parseVariables(prompt).variables[1].endIndex = Len(prompt) - 1
  /\ parseVariables(prompt).variables[1].defaultValue # undefined

\* C29: the final unescape pass of replaceVariables changes only the
\* escape sequences of the template's literal text: every substituted
\* value (a value-map value, or a default the parser has unescaped) stands
\* in replacedText character for character; for a template that is a
\* single placeholder with a default and an empty value map, replacedText
\* is the defaultValue that parseVariables reports.
C29_ValuesKeptVerbatim ==
  Succeeded =>
    /\ result.replacedText =
         LiteralUnescaped(prompt, parseVariables(prompt).variables, 1, 0)
    /\ (SinglePlaceholderWithDefault /\ variableValues = <<>>) =>
         result.replacedText = parseVariables(prompt).variables[1].defaultValue

(***************************************************************************)
(* C30                                                                     *)
(***************************************************************************)
\* how many times ch occurs in text
Count(text, ch) == Cardinality({i \in 1..Len(text) : text[i] = ch})

\* entity occurs in text from (1-based) position i on
EntityAt(text, i, entity) ==
  /\ i + Len(entity) - 1 <= Len(text)
  /\ SubSeq(text, i, i + Len(entity) - 1) = entity

\* the positions of text where an ampersand does not start one of the
\* entities escapeHtml writes
BareAmpersands(text) ==
  {i \in 1..Len(text) :
     /\ text[i] = "&"
     /\ \A entity \in {AMP, LT, GT, QUOT, APOS} : ~EntityAt(text, i, entity)}

\* C30: in the markup generatePreviewHtml returns, every character that
\* comes from the template text or from a value is HTML-escaped wherever it
\* is inserted, in element content and in the title attribute alike, and
\* the final unescape pass does not undo it: the only `<`, `>` and `"` of the
\* markup are those of the span tags written for the variables (two, two
\* and four for each), there is no `'` and no bare `&`.
C30_PreviewIsEscaped ==
  pc = "previewed" =>
    /\ Count(returnValue, "<") = 2 * Len(parseResult.variables)
    /\ Count(returnValue, ">") = 2 * Len(parseResult.variables)
    /\ Count(returnValue, "\"") = 4 * Len(parseResult.variables)
    /\ Count(returnValue, "'") = 0
    /\ BareAmpersands(returnValue) = {}

=============================================================================
